---- MODULE Spec2Model ----
(***************************************************************************)
(* A model of sunburnt's transport layer (src/sunburnt/sunburnt.py):       *)
(* SolrConnection (access mode, single retry, update-URL construction,     *)
(* GET/POST selection for select and mlt), the grouper generator and the   *)
(* SolrInterface facade (add, delete, search, mlt_search).                 *)
(*                                                                         *)
(* Python strings are modelled as sequences of atoms.  An atom is a TLA+   *)
(* string that is either a run of characters urllib.quote_plus leaves      *)
(* alone (letters, digits, '_', '.', '-') or one single other character.   *)
(* The text of a Python string is the concatenation of its atoms; texts    *)
(* that are sent over the wire (URLs, bodies) are plain TLA+ strings.      *)
(***************************************************************************)
EXTENDS Integers, Sequences, FiniteSets, TLC

VARIABLES
    readable,            \* SolrConnection.readable
    writeable,           \* SolrConnection.writeable
    retry_timeout,       \* SolrConnection.retry_timeout
    max_length_get_url,  \* SolrConnection.max_length_get_url
    format,              \* SolrConnection.format
    pc,                  \* "idle" | "add" | "grouper" | "done": position of the caller
    call,                \* the call in progress or just finished: [op, args]
    events,              \* what the call did so far: transport calls, sleeps, warnings
    updates,             \* the bodies the facade call handed to SolrConnection.update
    result,              \* how the call ended: a return value or a raised exception
    it,                  \* grouper's iterator i: the items not yet consumed
    yielded              \* the chunks grouper has yielded so far

vars == <<readable, writeable, retry_timeout, max_length_get_url, format,
          pc, call, events, updates, result, it, yielded>>

config == <<readable, writeable, retry_timeout, max_length_get_url, format>>

(***************************************************************************)
(* Bounds of the model.                                                    *)
(***************************************************************************)
\* integers given for commitWithin / maxSegments range over -MaxInt..MaxInt
MaxInt == 1
\* a document collection holds at most MaxDocs documents
MaxDocs == 3
\* chunk sizes range over 0..MaxChunk
MaxChunk == 3
\* a query value holds at most MaxAtoms atoms
MaxAtoms == 2
\* grouper is also run on the lists 1..k for k up to MaxLong
MaxLong == 10

(***************************************************************************)
(* Python values passed as keyword arguments.                              *)
(***************************************************************************)
PyNone == [t |-> "None", b |-> FALSE, v |-> 0, s |-> ""]
PyBool(b) == [t |-> "bool", b |-> b, v |-> 0, s |-> ""]
PyInt(i) == [t |-> "int", b |-> FALSE, v |-> i, s |-> ""]
\* a value int() rejects with ValueError (a non-numeric string) ...
PyWord == [t |-> "word", b |-> FALSE, v |-> 0, s |-> "abc"]
\* ... and one it rejects with TypeError (a list)
PyList == [t |-> "list", b |-> FALSE, v |-> 0, s |-> ""]
\* a str object whose text is s
PyStr(s) == [t |-> "str", b |-> FALSE, v |-> 0, s |-> s]

\* Python truthiness, as used by `"true" if x else "false"`
Truthy(x) ==
    CASE x.t = "bool" -> x.b
      [] x.t = "int" -> x.v # 0
      [] x.t = "word" -> TRUE
      [] x.t = "str" -> x.s # ""
      [] OTHER -> FALSE

\* int(x) succeeds (neither TypeError nor ValueError)
IntCoercible(x) == x.t \in {"int", "bool"}

\* int(x) for a coercible x
IntOf(x) == IF x.t = "bool" THEN (IF x.b THEN 1 ELSE 0) ELSE x.v

Digit(d) ==
    CASE d = 0 -> "0" [] d = 1 -> "1" [] d = 2 -> "2" [] d = 3 -> "3"
      [] d = 4 -> "4" [] d = 5 -> "5" [] d = 6 -> "6" [] d = 7 -> "7"
      [] d = 8 -> "8" [] d = 9 -> "9"

RECURSIVE NatToStr(_)
NatToStr(n) == IF n < 10 THEN Digit(n) ELSE NatToStr(n \div 10) \o Digit(n % 10)

\* str(i) of an int
IntToStr(i) == IF i < 0 THEN "-" \o NatToStr(-i) ELSE NatToStr(i)

\* a < b as CPython 2 orders two objects: ints by value; an int and a str are
\* of different types and a number is smaller than any other object
PyLess(a, b) ==
    CASE a.t = "int" /\ b.t = "int" -> a.v < b.v
      [] a.t = "str" /\ b.t = "int" -> FALSE
      [] a.t = "int" /\ b.t = "str" -> TRUE
      [] OTHER -> FALSE

\* a <= b under the same ordering
PyLessEq(a, b) ==
    CASE a.t = "int" /\ b.t = "int" -> a.v <= b.v
      [] a.t = "str" /\ b.t = "int" -> FALSE
      [] a.t = "int" /\ b.t = "str" -> TRUE
      [] OTHER -> FALSE

(***************************************************************************)
(* urllib.quote_plus and urllib.urlencode.                                 *)
(***************************************************************************)
QuoteAtom(a) ==
    CASE a = " " -> "+"
      [] a = "&" -> "%26"
      [] a = "=" -> "%3D"
      [] a = "?" -> "%3F"
      [] a = "*" -> "%2A"
      [] a = ":" -> "%3A"
      [] OTHER -> a

RECURSIVE quote_plus(_)
quote_plus(s) == IF s = <<>> THEN "" ELSE QuoteAtom(Head(s)) \o quote_plus(Tail(s))

RECURSIVE urlencode(_)
urlencode(query) ==
    IF query = <<>> THEN ""
    ELSE LET kv == Head(query)
             one == quote_plus(kv[1]) \o "=" \o quote_plus(kv[2])
         IN IF Len(query) = 1 THEN one ELSE one \o "&" \o urlencode(Tail(query))

(***************************************************************************)
(* Results of a call, and what a call does.                                *)
(***************************************************************************)
NoResponse == [err |-> FALSE, status |-> 0, content |-> ""]

\* return None
ReturnNone == [kind |-> "return", exc |-> "", msg |-> "", value |-> "", response |-> NoResponse]
\* return a string
ReturnStr(s) == [kind |-> "return", exc |-> "", msg |-> "", value |-> s, response |-> NoResponse]
\* return a response object
ReturnResponse(r) == [kind |-> "return", exc |-> "", msg |-> "", value |-> "", response |-> r]
\* raise exc(msg)
Raise(exc, msg) == [kind |-> "raise", exc |-> exc, msg |-> msg, value |-> "", response |-> NoResponse]
\* raise SolrError(response)
RaiseSolrError(r) == [kind |-> "raise", exc |-> "SolrError", msg |-> "", value |-> "", response |-> r]
\* no result yet
Pending == [kind |-> "pending", exc |-> "", msg |-> "", value |-> "", response |-> NoResponse]

NoRequest == [method |-> "", url |-> "", data |-> <<>>, headers |-> {}]
\* data is <<>> when no data argument is passed and <<text>> otherwise
Request(method, u, data, headers) ==
    [method |-> method, url |-> u, data |-> data, headers |-> headers]

HttpEvent(req, out) == [ev |-> "http", req |-> req, out |-> out, secs |-> 0]
SleepEvent(secs) == [ev |-> "sleep", req |-> NoRequest, out |-> NoResponse, secs |-> secs]
WarnEvent == [ev |-> "warn", req |-> NoRequest, out |-> NoResponse, secs |-> 0]

Effect(evs, res) == [events |-> evs, result |-> res]

\* what http_connection.request may do: raise ConnectionError or answer
ConnectionFailure == [err |-> TRUE, status |-> 0, content |-> ""]
Outcomes ==
    { ConnectionFailure,
      [err |-> FALSE, status |-> 200, content |-> "ok"],
      [err |-> FALSE, status |-> 204, content |-> ""],
      [err |-> FALSE, status |-> 500, content |-> "oops"] }

(***************************************************************************)
(* SolrConnection.                                                         *)
(***************************************************************************)
url == "http://s/"
update_url == url \o "update/"
select_url == url \o "select/"
mlt_url == url \o "mlt/"

\* request as it would be without the test of retry_timeout: it always retries
request_always_retries(req, o1, o2) ==
    IF ~o1.err THEN Effect(<<HttpEvent(req, o1)>>, ReturnResponse(o1))
    ELSE Effect(<<HttpEvent(req, o1), SleepEvent(retry_timeout), HttpEvent(req, o2)>>,
                IF o2.err THEN Raise("ConnectionError", "") ELSE ReturnResponse(o2))

\* request(*args, **kwargs); o1 and o2 are what the transport does on the
\* first and on the second call
request(req, o1, o2) ==
    IF ~o1.err THEN Effect(<<HttpEvent(req, o1)>>, ReturnResponse(o1))
    ELSE IF retry_timeout < 0
         THEN Effect(<<HttpEvent(req, o1)>>, Raise("ConnectionError", ""))
         ELSE Effect(<<HttpEvent(req, o1), SleepEvent(retry_timeout), HttpEvent(req, o2)>>,
                     IF o2.err THEN Raise("ConnectionError", "") ELSE ReturnResponse(o2))

KwNames == {"commit", "commitWithin", "softCommit", "optimize", "waitSearcher",
            "expungeDeletes", "maxSegments"}

NoKwargs == [k \in KwNames |-> PyNone]

\* the keys of extra_params in the order sorted() puts them (byte order)
SortedKeys == <<"commit", "commitWithin", "expungeDeletes", "maxSegments",
                "optimize", "softCommit", "waitSearcher">>

\* sorted(extra_params.items()), each key and value a one-atom string
RECURSIVE SortedItemsFrom(_, _)
SortedItemsFrom(d, i) ==
    IF i > Len(SortedKeys) THEN <<>>
    ELSE LET k == SortedKeys[i]
         IN IF k \in DOMAIN d
            THEN <<  << <<k>>, <<d[k]>> >>  >> \o SortedItemsFrom(d, i + 1)
            ELSE SortedItemsFrom(d, i + 1)

\* the items as they would be without sorted(): in the order the keys were set
InsertionKeys == <<"commit", "commitWithin", "softCommit", "optimize", "waitSearcher",
                   "expungeDeletes", "maxSegments">>

RECURSIVE InsertionItemsFrom(_, _)
InsertionItemsFrom(d, i) ==
    IF i > Len(InsertionKeys) THEN <<>>
    ELSE LET k == InsertionKeys[i]
         IN IF k \in DOMAIN d
            THEN <<  << <<k>>, <<d[k]>> >>  >> \o InsertionItemsFrom(d, i + 1)
            ELSE InsertionItemsFrom(d, i + 1)

unsorted_items(d) == InsertionItemsFrom(d, 1)

sorted_items(d) == SortedItemsFrom(d, 1)

BoolText(x) == IF Truthy(x) THEN "true" ELSE "false"

\* extra_params once every modifier has been looked at
extra_params(kw) ==
    [k \in {n \in KwNames : kw[n] # PyNone} |->
        IF k \in {"commitWithin", "maxSegments"} THEN IntToStr(IntOf(kw[k]))
        ELSE BoolText(kw[k])]

commitWithinRejected(kw) ==
    /\ kw.commitWithin # PyNone
    /\ \/ ~IntCoercible(kw.commitWithin)
       \/ PyLess(PyStr(IntToStr(IntOf(kw.commitWithin))), PyInt(0))

maxSegmentsRejected(kw) ==
    /\ kw.maxSegments # PyNone
    /\ ~IntCoercible(kw.maxSegments)

maxSegmentsNotPositive(kw) ==
    /\ kw.maxSegments # PyNone
    /\ PyLessEq(PyStr(IntToStr(IntOf(kw.maxSegments))), PyInt(0))

expungeDeletesWithoutCommit(kw) ==
    "expungeDeletes" \in DOMAIN extra_params(kw) /\ "commit" \notin DOMAIN extra_params(kw)

maxSegmentsWithoutOptimize(kw) ==
    "maxSegments" \in DOMAIN extra_params(kw) /\ "optimize" \notin DOMAIN extra_params(kw)

update_query(kw) == urlencode(sorted_items(extra_params(kw)))

url_for_update(kw) ==
    IF commitWithinRejected(kw)
    THEN Raise("ValueError", "commitWithin should be a number in milliseconds")
    ELSE IF maxSegmentsRejected(kw)
    THEN Raise("ValueError", "maxSegments")
    ELSE IF maxSegmentsNotPositive(kw)
    THEN Raise("ValueError", "maxSegments should be a positive number")
    ELSE IF expungeDeletesWithoutCommit(kw)
    THEN Raise("ValueError", "Can't do expungeDeletes without commit")
    ELSE IF maxSegmentsWithoutOptimize(kw)
    THEN Raise("ValueError", "Can't do maxSegments without optimize")
    ELSE IF DOMAIN extra_params(kw) # {}
    THEN ReturnStr(update_url \o "?" \o update_query(kw))
    ELSE ReturnStr(update_url)

XmlHeaders == {<<"Content-Type", "text/xml; charset=utf-8">>}
FormHeaders == {<<"Content-Type", "application/x-www-form-urlencoded">>}
TextHeaders == {<<"Content-Type", "text/plain; charset=utf-8">>}

\* the status check as it would be if every 2xx status counted as success
checked_any_2xx(eff, returnsContent) ==
    IF eff.result.kind = "raise" THEN eff
    ELSE IF eff.result.response.status >= 300
         THEN Effect(eff.events, RaiseSolrError(eff.result.response))
         ELSE Effect(eff.events,
                     IF returnsContent THEN ReturnStr(eff.result.response.content)
                     ELSE ReturnNone)

\* the status check that follows every request: SolrError unless 200, and
\* then either response.content or None is returned
checked(eff, returnsContent) ==
    IF eff.result.kind = "raise" THEN eff
    ELSE IF eff.result.response.status # 200
         THEN Effect(eff.events, RaiseSolrError(eff.result.response))
         ELSE Effect(eff.events,
                     IF returnsContent THEN ReturnStr(eff.result.response.content)
                     ELSE ReturnNone)

\* update as it would be without the test of self.writeable
update_unguarded(update_doc, kw, o1, o2) ==
    LET headers == IF update_doc # "" THEN XmlHeaders ELSE {}
        u == url_for_update(kw)
    IN IF u.kind = "raise" THEN Effect(<<>>, u)
       ELSE checked(request(Request("POST", u.value, <<update_doc>>, headers), o1, o2), FALSE)

update(update_doc, kw, o1, o2) ==
    IF ~writeable
    THEN Effect(<<>>, Raise("TypeError", "This Solr instance is only for reading"))
    ELSE LET headers == IF update_doc # "" THEN XmlHeaders ELSE {}
             u == url_for_update(kw)
         IN IF u.kind = "raise" THEN Effect(<<>>, u)
            ELSE checked(request(Request("POST", u.value, <<update_doc>>, headers), o1, o2),
                         FALSE)

\* the keyword arguments commit() and optimize() hand to update()
commit_kwargs(waitSearcher, expungeDeletes, softCommit) ==
    [NoKwargs EXCEPT !.commit = PyBool(TRUE), !.waitSearcher = waitSearcher,
                     !.expungeDeletes = expungeDeletes, !.softCommit = softCommit]

optimize_kwargs(waitSearcher, maxSegments) ==
    [NoKwargs EXCEPT !.optimize = PyBool(TRUE), !.waitSearcher = waitSearcher,
                     !.maxSegments = maxSegments]

commit(waitSearcher, expungeDeletes, softCommit, o1, o2) ==
    update("<commit/>", commit_kwargs(waitSearcher, expungeDeletes, softCommit), o1, o2)

optimize(waitSearcher, maxSegments, o1, o2) ==
    update("<optimize/>", optimize_kwargs(waitSearcher, maxSegments), o1, o2)

rollback(o1, o2) == update("<rollback/>", NoKwargs, o1, o2)

\* params after select() has appended wt=json to it
select_params(params) ==
    IF format = "json" THEN Append(params, << <<"wt">>, <<"json">> >>) ELSE params

\* the length test as it would be with >= for >
too_long_inclusive(u) == Len(u) >= max_length_get_url

\* len(url) > self.max_length_get_url
too_long(u) == Len(u) > max_length_get_url

select(params, o1, o2) ==
    IF ~readable
    THEN Effect(<<>>, Raise("TypeError", "This Solr instance is only for writing"))
    ELSE LET qs == urlencode(select_params(params))
             u == select_url \o "?" \o qs
         IN IF too_long(u)
            THEN LET eff == request(Request("POST", select_url, <<qs>>, FormHeaders), o1, o2)
                 IN checked(Effect(<<WarnEvent>> \o eff.events, eff.result), TRUE)
            ELSE checked(request(Request("GET", u, <<>>, {}), o1, o2), TRUE)

\* the text of a string: its atoms one after the other
RECURSIVE Text(_)
Text(s) == IF s = <<>> THEN "" ELSE Head(s) \o Text(Tail(s))

\* content is <<>> for None and <<s>> for a string s
mlt(params, content, o1, o2) ==
    IF ~readable
    THEN Effect(<<>>, Raise("TypeError", "This Solr instance is only for writing"))
    ELSE LET qs == urlencode(params)
             base_url == mlt_url \o "?" \o qs
         IN IF content = <<>>
            THEN checked(request(Request("GET", base_url, <<>>, {}), o1, o2), TRUE)
            ELSE LET get_url == base_url \o "&stream.body=" \o quote_plus(content[1])
                 IN IF Len(get_url) <= max_length_get_url
                    THEN checked(request(Request("GET", get_url, <<>>, {}), o1, o2), TRUE)
                    ELSE checked(request(Request("POST", base_url, <<Text(content[1])>>,
                                                 TextHeaders), o1, o2), TRUE)

(***************************************************************************)
(* grouper.                                                                *)
(***************************************************************************)
Min(a, b) == IF a < b THEN a ELSE b

\* list(islice(i, 0, n)): the items taken and what is left in the iterator
islice(i, n) ==
    [taken |-> SubSeq(i, 1, Min(n, Len(i))),
     rest |-> SubSeq(i, Min(n, Len(i)) + 1, Len(i))]

\* the generator as it would be if it stopped at the first chunk shorter than n
grouper_next_full_chunks_only(i, n) ==
    LET g == islice(i, n)
    IN [stop |-> Len(g.taken) < n, chunk |-> g.taken, rest |-> g.rest]

\* one resumption of the generator: it stops when g is empty, else yields g
grouper_next(i, n) ==
    LET g == islice(i, n)
    IN [stop |-> g.taken = <<>>, chunk |-> g.taken, rest |-> g.rest]

(***************************************************************************)
(* The schema component (sunburnt/schema.py) and the parameter builder     *)
(* (sunburnt/search.py), at their boundary.                                *)
(***************************************************************************)
RECURSIVE DocsXml(_)
DocsXml(ds) == IF ds = <<>> THEN "" ELSE "<doc>" \o IntToStr(Head(ds)) \o "</doc>" \o DocsXml(Tail(ds))

\* str(self.schema.make_update(doc_chunk))
make_update(ds) == "<add>" \o DocsXml(ds) \o "</add>"

\* str(self.schema.make_delete(docs, queries)); docs is <<>> for None
make_delete(ds, queries) ==
    "<delete>" \o (IF ds = <<>> THEN "" ELSE DocsXml(ds[1]))
               \o (IF queries = <<>> THEN "" ELSE "<query>" \o Text(queries[1]) \o "</query>")
               \o "</delete>"

\* self.schema.parse_response(content)
parse_response(content) == "parsed:" \o content

(***************************************************************************)
(* SolrInterface.                                                          *)
(***************************************************************************)
\* the docs argument: None, one mapping, one object that is not iterable,
\* or a list of documents
DocsNone == [t |-> "None", one |-> 0, items |-> <<>>]
DocsDict(d) == [t |-> "dict", one |-> d, items |-> <<>>]
DocsScalar(d) == [t |-> "scalar", one |-> d, items |-> <<>>]
DocsList(ds) == [t |-> "list", one |-> 0, items |-> ds]

\* hasattr(docs, "items") or not hasattr(docs, "__iter__"), which None
\* satisfies as well
is_single(docs) == docs.t \in {"dict", "scalar", "None"}

\* docs after `docs = [docs]` where it applies
as_list(docs) == IF is_single(docs) THEN <<docs.one>> ELSE docs.items

\* `not docs`
docs_falsy(docs) == docs.t = "None" \/ (docs.t = "list" /\ docs.items = <<>>)

\* delete as it would be without the test of docs and queries
delete_unchecked(docs, queries, kw, o1, o2) ==
    LET ds == IF docs.t = "None" THEN <<>> ELSE <<as_list(docs)>>
        delete_message == make_delete(ds, queries)
    IN [eff |-> update(delete_message, kw, o1, o2), updates |-> <<delete_message>>]

\* delete(docs, queries, **kwargs); queries is <<>> for None.  The result
\* carries the bodies handed to SolrConnection.update beside the effect.
delete(docs, queries, kw, o1, o2) ==
    IF docs_falsy(docs) /\ queries = <<>>
    THEN [eff |-> Effect(<<>>, Raise("SolrError", "No docs or query specified for deletion")),
          updates |-> <<>>]
    ELSE LET ds == IF docs.t = "None" THEN <<>> ELSE <<as_list(docs)>>
             delete_message == make_delete(ds, queries)
         IN [eff |-> update(delete_message, kw, o1, o2), updates |-> <<delete_message>>]

\* search(**kwargs), params being what params_from_dict(**kwargs) returns
search(params, o1, o2) ==
    LET eff == select(params, o1, o2)
    IN IF eff.result.kind = "raise" THEN eff
       ELSE Effect(eff.events, ReturnStr(parse_response(eff.result.value)))

mlt_search(params, content, o1, o2) ==
    LET eff == mlt(params, content, o1, o2)
    IN IF eff.result.kind = "raise" THEN eff
       ELSE Effect(eff.events, ReturnStr(parse_response(eff.result.value)))

(***************************************************************************)
(* The inputs the calls are made with.                                     *)
(***************************************************************************)
Modes == {"", "r", "w"}
RetryTimeouts == {-1, 0, 2}
Ceilings == {21, 28}
Formats == {"xml", "json"}

Bools == {PyBool(TRUE), PyBool(FALSE)}
OptBools == {PyNone} \cup Bools
Numbers == {PyNone, PyWord, PyList} \cup {PyInt(i) : i \in (-MaxInt)..MaxInt}

\* every combination of modifiers
AllKwargs ==
    { [commit |-> c, commitWithin |-> cw, softCommit |-> sc, optimize |-> op,
       waitSearcher |-> ws, expungeDeletes |-> ed, maxSegments |-> ms] :
      c \in OptBools, cw \in Numbers, sc \in OptBools, op \in OptBools,
      ws \in OptBools, ed \in OptBools, ms \in Numbers }

\* the modifiers the facade calls are made with
SomeKwargs ==
    { NoKwargs,
      [NoKwargs EXCEPT !.commit = PyBool(TRUE)],
      [NoKwargs EXCEPT !.expungeDeletes = PyBool(TRUE)] }

Bodies == {"", "<add/>"}

Atoms == {"a", " ", "&"}
Strings == UNION { [1..k -> Atoms] : k \in 0..MaxAtoms }
Param(k, v) == <<k, v>>
ParamLists ==
    {<<>>} \cup { <<Param(<<"q">>, v)>> : v \in Strings }
           \cup { <<Param(<<"q">>, v), Param(<<"rows">>, <<"10">>)>> : v \in Strings }
SomeParamLists == {<<>>, <<Param(<<"q">>, <<"a", "&">>)>>}
Contents == {<<>>} \cup { <<v>> : v \in Strings }
SomeContents == {<<>>, << <<"a">> >>, << <<"a", " ">> >>}

DocIds == {1, 2}
DocLists == UNION { [1..k -> DocIds] : k \in 0..MaxDocs }
DocsArgs == {DocsDict(1), DocsScalar(2)} \cup { DocsList(ds) : ds \in DocLists }
SomeDocsArgs == {DocsDict(1), DocsScalar(2), DocsList(<<>>), DocsList(<<1>>), DocsList(<<2, 1>>)}
Chunks == 0..MaxChunk
SomeChunks == {0, 1, 100}
Queries == {<<>>, << <<"*", ":", "*">> >>}

\* the iterables grouper is run on
Iterables == DocLists \cup { [i \in 1..k |-> i] : k \in 0..MaxLong }

Requests == { Request("GET", url \o "admin/file/?file=schema.xml", <<>>, {}),
              Request("POST", update_url, <<"<commit/>">>, XmlHeaders) }

(***************************************************************************)
(* The state machine: a caller makes one call after the other on a         *)
(* connection whose configuration was fixed by the constructor.            *)
(***************************************************************************)
Idle ==
    /\ pc = "idle"
    /\ call = [op |-> "none"]
    /\ events = <<>>
    /\ updates = <<>>
    /\ result = Pending
    /\ it = <<>>
    /\ yielded = <<>>

\* SolrConnection.__init__
Constructed(mode, rt, ceiling, fmt) ==
    /\ readable = (mode # "w")
    /\ writeable = (mode # "r")
    /\ retry_timeout = rt
    /\ max_length_get_url = ceiling
    /\ format = fmt

\* a call that runs to its end in one step
Finish(op, args, eff, upd) ==
    /\ pc' = "done"
    /\ call' = [op |-> op, args |-> args]
    /\ events' = eff.events
    /\ updates' = upd
    /\ result' = eff.result
    /\ UNCHANGED <<config, it, yielded>>

RequestCall ==
    /\ pc = "idle"
    /\ \E req \in Requests, o1 \in Outcomes, o2 \in Outcomes :
        Finish("request", [req |-> req], request(req, o1, o2), <<>>)

UpdateCall(kwargs) ==
    /\ pc = "idle"
    /\ \E body \in Bodies, kw \in kwargs, o1 \in Outcomes, o2 \in Outcomes :
        Finish("update", [body |-> body, kw |-> kw], update(body, kw, o1, o2), <<body>>)

UrlForUpdateCall ==
    /\ pc = "idle"
    /\ \E kw \in AllKwargs :
        Finish("url_for_update", [kw |-> kw], Effect(<<>>, url_for_update(kw)), <<>>)

CommitCall ==
    /\ pc = "idle"
    /\ \E ws \in OptBools, ed \in OptBools, sc \in OptBools, o1 \in Outcomes, o2 \in Outcomes :
        Finish("commit", [kw |-> commit_kwargs(ws, ed, sc)],
               commit(ws, ed, sc, o1, o2), <<"<commit/>">>)

OptimizeCall ==
    /\ pc = "idle"
    /\ \E ws \in OptBools, ms \in Numbers, o1 \in Outcomes, o2 \in Outcomes :
        Finish("optimize", [kw |-> optimize_kwargs(ws, ms)],
               optimize(ws, ms, o1, o2), <<"<optimize/>">>)

RollbackCall ==
    /\ pc = "idle"
    /\ \E o1 \in Outcomes, o2 \in Outcomes :
        Finish("rollback", [kw |-> NoKwargs], rollback(o1, o2), <<"<rollback/>">>)

SelectCall(paramLists) ==
    /\ pc = "idle"
    /\ \E params \in paramLists, o1 \in Outcomes, o2 \in Outcomes :
        Finish("select", [params |-> params], select(params, o1, o2), <<>>)

MltCall(contents) ==
    /\ pc = "idle"
    /\ \E params \in SomeParamLists, content \in contents, o1 \in Outcomes, o2 \in Outcomes :
        Finish("mlt", [params |-> params, content |-> content],
               mlt(params, content, o1, o2), <<>>)

SearchCall ==
    /\ pc = "idle"
    /\ \E params \in SomeParamLists, o1 \in Outcomes, o2 \in Outcomes :
        Finish("search", [params |-> params], search(params, o1, o2), <<>>)

MltSearchCall ==
    /\ pc = "idle"
    /\ \E params \in SomeParamLists, content \in SomeContents, o1 \in Outcomes, o2 \in Outcomes :
        Finish("mlt_search", [params |-> params, content |-> content],
               mlt_search(params, content, o1, o2), <<>>)

DeleteCall ==
    /\ pc = "idle"
    /\ \E docs \in SomeDocsArgs \cup {DocsNone}, queries \in Queries, kw \in SomeKwargs,
       o1 \in Outcomes, o2 \in Outcomes :
        LET d == delete(docs, queries, kw, o1, o2)
        IN Finish("delete", [docs |-> docs, queries |-> queries, kw |-> kw], d.eff, d.updates)

\* add(docs, chunk, **kwargs) up to the loop: docs is normalised and the
\* generator made
AddCall(docsArgs, chunks) ==
    /\ pc = "idle"
    /\ \E docs \in docsArgs, chunk \in chunks, kw \in SomeKwargs :
        /\ pc' = "add"
        /\ call' = [op |-> "add", args |-> [docs |-> docs, chunk |-> chunk, kw |-> kw]]
        /\ it' = as_list(docs)
        /\ UNCHANGED <<config, events, updates, result, yielded>>

\* add's loop as it would be if it went on to the next chunk after a failure
AddChunkKeepsGoing ==
    /\ pc = "add"
    /\ LET nx == grouper_next(it, call.args.chunk)
       IN IF nx.stop
          THEN /\ pc' = "done"
               /\ result' = IF result = Pending THEN ReturnNone ELSE result
               /\ UNCHANGED <<events, updates, it, yielded>>
          ELSE \E o1 \in Outcomes, o2 \in Outcomes :
                 LET update_message == make_update(nx.chunk)
                     eff == update(update_message, call.args.kw, o1, o2)
                 IN /\ it' = nx.rest
                    /\ yielded' = Append(yielded, nx.chunk)
                    /\ updates' = Append(updates, update_message)
                    /\ events' = events \o eff.events
                    /\ pc' = "add"
                    /\ result' = IF eff.result.kind = "raise" /\ result = Pending
                                 THEN eff.result ELSE result
    /\ UNCHANGED <<config, call>>

\* one turn of add's loop: the next chunk is taken from the generator,
\* serialised and handed to update; the loop ends when the generator stops
\* and is left when update raises
AddChunk ==
    /\ pc = "add"
    /\ LET nx == grouper_next(it, call.args.chunk)
       IN IF nx.stop
          THEN /\ pc' = "done"
               /\ result' = ReturnNone
               /\ UNCHANGED <<events, updates, it, yielded>>
          ELSE \E o1 \in Outcomes, o2 \in Outcomes :
                 LET update_message == make_update(nx.chunk)
                     eff == update(update_message, call.args.kw, o1, o2)
                 IN /\ it' = nx.rest
                    /\ yielded' = Append(yielded, nx.chunk)
                    /\ updates' = Append(updates, update_message)
                    /\ events' = events \o eff.events
                    /\ IF eff.result.kind = "raise"
                       THEN pc' = "done" /\ result' = eff.result
                       ELSE pc' = "add" /\ result' = result
    /\ UNCHANGED <<config, call>>

\* next() on the generator grouper(iterable, n) returned
GrouperNext ==
    /\ pc = "grouper"
    /\ LET nx == grouper_next(it, call.args.n)
       IN IF nx.stop
          THEN pc' = "done" /\ result' = ReturnNone /\ UNCHANGED <<it, yielded>>
          ELSE it' = nx.rest /\ yielded' = Append(yielded, nx.chunk) /\ UNCHANGED <<pc, result>>
    /\ UNCHANGED <<config, call, events, updates>>

\* the caller has the result and is ready for its next call
Return ==
    /\ pc = "done"
    /\ call.op # "grouper"
    /\ pc' = "idle"
    /\ call' = [op |-> "none"]
    /\ events' = <<>>
    /\ updates' = <<>>
    /\ result' = Pending
    /\ it' = <<>>
    /\ yielded' = <<>>
    /\ UNCHANGED config

(***************************************************************************)
(* Spec: every operation of the connection and of the facade, on every     *)
(* access mode, retry delay, ceiling and format.                           *)
(***************************************************************************)
Init ==
    /\ \E mode \in Modes, rt \in RetryTimeouts, c \in Ceilings, fmt \in Formats :
          Constructed(mode, rt, c, fmt)
    /\ Idle

Next ==
    \/ RequestCall
    \/ UpdateCall(SomeKwargs)
    \/ CommitCall
    \/ OptimizeCall
    \/ RollbackCall
    \/ SelectCall(ParamLists)
    \/ MltCall(Contents)
    \/ SearchCall
    \/ MltSearchCall
    \/ DeleteCall
    \/ AddCall(SomeDocsArgs, SomeChunks)
    \/ AddChunk
    \/ Return

Spec == Init /\ [][Next]_vars

(***************************************************************************)
(* SpecUpdate: url_for_update and update on every combination of           *)
(* modifiers.                                                              *)
(***************************************************************************)
InitUpdate ==
    /\ \E mode \in {"", "r"} : Constructed(mode, -1, 28, "xml")
    /\ Idle

NextUpdate == UrlForUpdateCall \/ UpdateCall(AllKwargs) \/ Return

SpecUpdate == InitUpdate /\ [][NextUpdate]_vars

(***************************************************************************)
(* SpecAdd: add on every document collection and chunk size.               *)
(***************************************************************************)
InitAdd ==
    /\ \E mode \in {"", "r"}, rt \in {-1, 0} : Constructed(mode, rt, 28, "xml")
    /\ Idle

NextAdd == AddCall(DocsArgs, Chunks) \/ AddChunk \/ Return

SpecAdd == InitAdd /\ [][NextAdd]_vars

(***************************************************************************)
(* SpecGrouper: grouper(iterable, n) consumed to its end.                  *)
(***************************************************************************)
InitGrouper ==
    /\ Constructed("", -1, 28, "xml")
    /\ \E iterable \in Iterables, n \in Chunks :
          /\ call = [op |-> "grouper", args |-> [iterable |-> iterable, n |-> n]]
          /\ it = iterable
    /\ pc = "grouper"
    /\ events = <<>>
    /\ updates = <<>>
    /\ result = Pending
    /\ yielded = <<>>

NextGrouper == GrouperNext

SpecGrouper == InitGrouper /\ [][NextGrouper]_vars

(***************************************************************************)
(* What the claims are stated with.                                        *)
(***************************************************************************)
Done(op) == pc = "done" /\ call.op = op

Raised(exc) == result.kind = "raise" /\ result.exc = exc

IsHttp(e) == e.ev = "http"

HttpEvents == SelectSeq(events, IsHttp)

IsWarn(e) == e.ev = "warn"

\* a transport call the server answered with a status other than 200
Refused(e) == e.ev = "http" /\ ~e.out.err /\ e.out.status # 200

\* a transport call the server answered with status 200
Accepted(e) == e.ev = "http" /\ ~e.out.err /\ e.out.status = 200

(***************************************************************************)
(* C1: one call of request makes one transport call when that call does    *)
(* not raise and returns its response; when it raises ConnectionError and  *)
(* retry_timeout >= 0 it sleeps retry_timeout and makes exactly one more   *)
(* call with the same arguments, whose response is returned or whose       *)
(* failure propagates; when retry_timeout < 0 the failure propagates with  *)
(* no second call.  No operation that goes through request once makes      *)
(* more than two transport calls.                                          *)
(***************************************************************************)
C1_SingleRetry ==
    /\ Done("request") =>
          LET req == call.args.req
              first == events[1]
          IN /\ Len(events) >= 1
             /\ first.ev = "http" /\ first.req = req
             /\ ~first.out.err =>
                   events = <<first>> /\ result = ReturnResponse(first.out)
             /\ (first.out.err /\ retry_timeout < 0) =>
                   events = <<first>> /\ Raised("ConnectionError")
             /\ (first.out.err /\ retry_timeout >= 0) =>
                   /\ Len(events) = 3
                   /\ events[2] = SleepEvent(retry_timeout)
                   /\ events[3].ev = "http" /\ events[3].req = req
                   /\ IF events[3].out.err THEN Raised("ConnectionError")
                      ELSE result = ReturnResponse(events[3].out)
    /\ (pc = "done" /\ call.op \notin {"add", "grouper"}) => Len(HttpEvents) <= 2

\* a request whose first transport call failed, slept 2 seconds and got 200
C1_RetriedOnce ==
    /\ Done("request")
    /\ Len(events) = 3
    /\ events[1].out.err
    /\ events[2] = SleepEvent(2)
    /\ result.kind = "return" /\ result.response.status = 200

(***************************************************************************)
(* C2 as claimed: on a read-only connection every update, add, delete and  *)
(* commit raises the access error (TypeError) and issues no transport      *)
(* request; on a write-only connection so does every select, mlt and       *)
(* search; for all arguments.                                              *)
(***************************************************************************)
C2_AccessErrorForAllArguments ==
    /\ (pc = "done" /\ ~writeable /\ call.op \in {"update", "add", "delete", "commit"}) =>
          Raised("TypeError") /\ HttpEvents = <<>>
    /\ (pc = "done" /\ ~readable /\ call.op \in {"select", "mlt", "search", "mlt_search"}) =>
          Raised("TypeError") /\ HttpEvents = <<>>

(***************************************************************************)
(* C2 as amended: on a read-only connection update and commit always       *)
(* raise the access error; add raises it when the collection yields at     *)
(* least one chunk (it is not empty and chunk >= 1) and returns normally   *)
(* otherwise; delete raises it when docs or queries is given and           *)
(* otherwise fails with its own error, which is not the access error;      *)
(* none of them issues a transport request.  On a write-only connection    *)
(* every select, mlt and search raises the access error and issues no      *)
(* transport request.                                                      *)
(***************************************************************************)
C2_AccessError ==
    /\ (~writeable /\ call.op \in {"update", "add", "delete", "commit", "optimize", "rollback"}) =>
          HttpEvents = <<>>
    /\ (pc = "done" /\ ~writeable /\ call.op \in {"update", "commit"}) => Raised("TypeError")
    /\ (Done("add") /\ ~writeable) =>
          LET docs == call.args.docs
              empty == docs.t = "list" /\ docs.items = <<>>
          IN IF ~empty /\ call.args.chunk >= 1 THEN Raised("TypeError")
             ELSE result = ReturnNone
    /\ (Done("delete") /\ ~writeable) =>
          LET docs == call.args.docs
              given == ~(docs.t = "None" \/ (docs.t = "list" /\ docs.items = <<>>))
                       \/ call.args.queries # <<>>
          IN IF given THEN Raised("TypeError")
             ELSE result.kind = "raise" /\ result.exc # "TypeError"
    /\ (pc = "done" /\ ~readable /\ call.op \in {"select", "mlt", "search", "mlt_search"}) =>
          Raised("TypeError") /\ HttpEvents = <<>>

\* add of a non-empty collection on a read-only connection raised TypeError
C2_AddRefused ==
    /\ Done("add")
    /\ ~writeable
    /\ call.args.docs = DocsList(<<2, 1>>)
    /\ Raised("TypeError")
    /\ events = <<>>

(***************************************************************************)
(* C3: in update, select and mlt a response whose status is not 200 ends   *)
(* the operation: it is the last thing the operation did on the            *)
(* transport, SolrError carrying that response is raised, and select and   *)
(* mlt return the response's content only when the status is 200.          *)
(***************************************************************************)
C3_Non200IsSolrError ==
    (pc = "done" /\ call.op \in {"update", "select", "mlt"}) =>
        /\ \A i \in 1..Len(events) :
              Refused(events[i]) =>
                  i = Len(events) /\ result = RaiseSolrError(events[i].out)
        /\ result.kind = "return" =>
              /\ events # <<>>
              /\ Accepted(events[Len(events)])
              /\ call.op \in {"select", "mlt"} =>
                    result.value = events[Len(events)].out.content

\* a select that was retried after a connection failure and then got 500
C3_RetriedThenRefused ==
    /\ Done("select")
    /\ Len(HttpEvents) = 2
    /\ HttpEvents[2].out.status = 500
    /\ result = RaiseSolrError(HttpEvents[2].out)

\* the query string select encodes for the call's params
C7_QueryString ==
    urlencode(IF format = "json"
              THEN call.args.params \o << << <<"wt">>, <<"json">> >> >>
              ELSE call.args.params)

(***************************************************************************)
(* C7: a select on a readable connection whose URL select_url?query (with  *)
(* wt=json appended when the format is json) is no longer than the ceiling *)
(* is a GET of that URL with no body and no warning; a longer one warns    *)
(* once and is a POST to select_url with the query string as body and      *)
(* Content-Type application/x-www-form-urlencoded.  A URL of exactly the   *)
(* ceiling uses GET.                                                       *)
(***************************************************************************)
C7_GetOrPost ==
    (Done("select") /\ readable) =>
        LET qs == C7_QueryString
            get_url == select_url \o "?" \o qs
        IN /\ HttpEvents # <<>>
           /\ IF Len(get_url) <= max_length_get_url
              THEN /\ \A i \in 1..Len(HttpEvents) :
                         HttpEvents[i].req = Request("GET", get_url, <<>>, {})
                   /\ SelectSeq(events, IsWarn) = <<>>
              ELSE /\ \A i \in 1..Len(HttpEvents) :
                         HttpEvents[i].req = Request("POST", select_url, <<qs>>, FormHeaders)
                   /\ SelectSeq(events, IsWarn) = <<WarnEvent>>
                   /\ events[1] = WarnEvent

\* a select whose URL is exactly as long as the ceiling went out as a GET
C7_AtCeiling ==
    /\ Done("select")
    /\ readable
    /\ Len(select_url \o "?" \o C7_QueryString) = max_length_get_url
    /\ events[1].ev = "http"
    /\ events[1].req.method = "GET"

C4_CommitWithinValidated ==
    (pc = "done" /\ call.op \in {"url_for_update", "update"}
                 /\ call.args.kw.commitWithin # PyNone) =>
        LET cw == call.args.kw.commitWithin
        IN IF cw.t = "int" /\ cw.v >= 0
           THEN (call.op = "url_for_update"
                 /\ call.args.kw = [NoKwargs EXCEPT !.commitWithin = cw]) =>
                    result = ReturnStr(update_url \o "?commitWithin=" \o IntToStr(cw.v))
           ELSE /\ result.kind = "raise"
                /\ call.op = "url_for_update" => Raised("ValueError")
                /\ events = <<>>

(***************************************************************************)
(* C5 as claimed: url_for_update with optimize present accepts every       *)
(* integer-coercible maxSegments > 0 and fails with ValueError for every   *)
(* maxSegments that is zero, negative or not integer-coercible; in the     *)
(* failing case no URL is returned and update issues no transport request. *)
(***************************************************************************)
C5_MaxSegmentsValidated ==
    (pc = "done" /\ call.op \in {"url_for_update", "update"}
                 /\ call.args.kw.optimize # PyNone
                 /\ call.args.kw.maxSegments # PyNone) =>
        LET ms == call.args.kw.maxSegments
        IN IF ms.t = "int" /\ ms.v > 0
           THEN (call.op = "url_for_update"
                 /\ call.args.kw = [NoKwargs EXCEPT !.optimize = PyBool(TRUE), !.maxSegments = ms]) =>
                    result = ReturnStr(update_url \o "?maxSegments=" \o IntToStr(ms.v)
                                                  \o "&optimize=true")
           ELSE /\ result.kind = "raise"
                /\ call.op = "url_for_update" => Raised("ValueError")
                /\ events = <<>>

\* a boolean modifier as it is to appear in the URL
C6_Bool(x) == IF x.b THEN "true" ELSE "false"

\* key=value of every present modifier, in the order of the keys
C6_Pairs(kw) ==
       (IF kw.commit = PyNone THEN <<>> ELSE <<"commit=" \o C6_Bool(kw.commit)>>)
    \o (IF kw.commitWithin = PyNone THEN <<>>
        ELSE <<"commitWithin=" \o IntToStr(kw.commitWithin.v)>>)
    \o (IF kw.expungeDeletes = PyNone THEN <<>>
        ELSE <<"expungeDeletes=" \o C6_Bool(kw.expungeDeletes)>>)
    \o (IF kw.maxSegments = PyNone THEN <<>>
        ELSE <<"maxSegments=" \o IntToStr(kw.maxSegments.v)>>)
    \o (IF kw.optimize = PyNone THEN <<>> ELSE <<"optimize=" \o C6_Bool(kw.optimize)>>)
    \o (IF kw.softCommit = PyNone THEN <<>> ELSE <<"softCommit=" \o C6_Bool(kw.softCommit)>>)
    \o (IF kw.waitSearcher = PyNone THEN <<>>
        ELSE <<"waitSearcher=" \o C6_Bool(kw.waitSearcher)>>)

RECURSIVE C6_Join(_)
C6_Join(ps) ==
    IF Len(ps) = 1 THEN ps[1] ELSE ps[1] \o "&" \o C6_Join(Tail(ps))

(***************************************************************************)
(* C6: url_for_update fails with ValueError when expungeDeletes is present *)
(* without commit and when maxSegments is present without optimize;        *)
(* otherwise, commitWithin and maxSegments being absent or integers in     *)
(* range, it returns the bare update URL when no modifier is present and   *)
(* else the update URL, "?" and key=value for exactly the present          *)
(* modifiers in the order of their keys, joined by "&", booleans as        *)
(* "true" / "false".                                                       *)
(***************************************************************************)
C6_DependenciesAndUrl ==
    Done("url_for_update") =>
        LET kw == call.args.kw
            inRange == /\ kw.commitWithin = PyNone
                          \/ (kw.commitWithin.t = "int" /\ kw.commitWithin.v >= 0)
                       /\ kw.maxSegments = PyNone
                          \/ (kw.maxSegments.t = "int" /\ kw.maxSegments.v > 0)
        IN IF kw.expungeDeletes # PyNone /\ kw.commit = PyNone THEN Raised("ValueError")
           ELSE IF kw.maxSegments # PyNone /\ kw.optimize = PyNone THEN Raised("ValueError")
           ELSE inRange =>
                  result = ReturnStr(IF C6_Pairs(kw) = <<>> THEN update_url
                                     ELSE update_url \o "?" \o C6_Join(C6_Pairs(kw)))

\* a URL with four modifiers, in the order of their keys
C6_FourModifiers ==
    /\ Done("url_for_update")
    /\ result = ReturnStr(update_url
                  \o "?commit=true&commitWithin=1&softCommit=false&waitSearcher=true")

\* the documents add was called with, as a list
C8_Items ==
    IF call.args.docs.t = "list" THEN call.args.docs.items ELSE <<call.args.docs.one>>

\* how many chunks of size n the list has
C8_NumChunks == (Len(C8_Items) + call.args.chunk - 1) \div call.args.chunk

\* the k-th chunk of size n
C8_Chunk(k) ==
    LET n == call.args.chunk
        hi == IF k * n < Len(C8_Items) THEN k * n ELSE Len(C8_Items)
    IN SubSeq(C8_Items, (k - 1) * n + 1, hi)

\* how many transport calls were answered with 200
C8_Accepted == Len(SelectSeq(events, Accepted))

(***************************************************************************)
(* C8: add hands the chunks of the collection to update one at a time in   *)
(* input order; when the update of a chunk fails the error propagates at   *)
(* once, no later chunk is serialised or submitted, and what was           *)
(* submitted before stays submitted.                                       *)
(***************************************************************************)
C8_ChunksInOrderUntilFailure ==
    (call.op = "add" /\ call.args.chunk >= 1) =>
        /\ Len(updates) <= C8_NumChunks
        /\ \A k \in 1..Len(updates) : updates[k] = make_update(C8_Chunk(k))
        /\ \A i \in 1..Len(HttpEvents) :
              /\ HttpEvents[i].req.method = "POST"
              /\ \E k \in 1..Len(updates) : HttpEvents[i].req.data = <<updates[k]>>
        /\ pc = "add" => C8_Accepted = Len(updates) /\ result = Pending
        /\ (pc = "done" /\ result.kind = "return") =>
              C8_Accepted = Len(updates) /\ Len(updates) = C8_NumChunks
        /\ (pc = "done" /\ result.kind = "raise") =>
              /\ Len(updates) >= 1
              /\ C8_Accepted = Len(updates) - 1
              /\ IF ~writeable THEN Raised("TypeError") /\ events = <<>>
                 ELSE IF events = <<>> THEN Raised("ValueError") /\ Len(updates) = 1
                 ELSE \/ Refused(events[Len(events)]) /\ Raised("SolrError")
                      \/ events[Len(events)].out.err /\ Raised("ConnectionError")

\* the second of three chunks failed with status 500 and the third was not sent
C8_SecondChunkFailed ==
    /\ Done("add")
    /\ call.args.chunk = 1
    /\ Len(C8_Items) = 3
    /\ Len(updates) = 2
    /\ C8_Accepted = 1
    /\ events[Len(events)].out.status = 500
    /\ Raised("SolrError")

\* the chunks one after the other
RECURSIVE C9_Flatten(_)
C9_Flatten(chunks) ==
    IF chunks = <<>> THEN <<>> ELSE Head(chunks) \o C9_Flatten(Tail(chunks))

(***************************************************************************)
(* C9: for n >= 1 the chunks grouper yields, one after the other, make up  *)
(* the input in its order; no chunk is empty, none has more than n items,  *)
(* every chunk but the last has exactly n, an empty input yields no        *)
(* chunk, and 10 items with n = 3 yield chunks of 3, 3, 3 and 1 items.     *)
(***************************************************************************)
C9_ChunksPartitionInput ==
    (call.op = "grouper" /\ call.args.n >= 1) =>
        LET n == call.args.n
            iterable == call.args.iterable
        IN /\ C9_Flatten(yielded) \o it = iterable
           /\ \A k \in 1..Len(yielded) :
                 /\ Len(yielded[k]) >= 1
                 /\ Len(yielded[k]) <= n
                 /\ k < Len(yielded) => Len(yielded[k]) = n
           /\ it # <<>> => \A k \in 1..Len(yielded) : Len(yielded[k]) = n
           /\ pc = "done" =>
                 /\ it = <<>>
                 /\ C9_Flatten(yielded) = iterable
                 /\ iterable = <<>> => yielded = <<>>
                 /\ (Len(iterable) = 10 /\ n = 3) =>
                       [k \in 1..Len(yielded) |-> Len(yielded[k])] = <<3, 3, 3, 1>>

\* ten items in chunks of three
C9_TenByThree ==
    /\ pc = "done"
    /\ call.op = "grouper"
    /\ call.args.n = 3
    /\ yielded = << <<1, 2, 3>>, <<4, 5, 6>>, <<7, 8, 9>>, <<10>> >>

====
